---------------------------- MODULE Spec2Model ----------------------------
(***************************************************************************)
(* A model of resvg's tree converter: convert::convert_doc (svgdom tree to *)
(* dom::Document), dom::dump::conv_doc (dom::Document back to an svgdom    *)
(* tree) and render_qt::image::draw.                                       *)
(*                                                                         *)
(* Numbers are fixed-point: f64 values are counted in hundredths, so 1.0  *)
(* is 100, and two values are fuzzy-equal when they differ by at most Eps. *)
(* An Option<T> is a sequence of length 0 (None) or 1 (Some).              *)
(***************************************************************************)
EXTENDS Integers, Sequences, FiniteSets, TLC

VARIABLES
    svg_doc,            \* the svgdom::Document handed to convert_doc
    debug_assertions,   \* build profile: are debug_assert!s compiled in
    pc,                 \* position inside convert_doc / conv_doc
    stack,              \* pending (node, depth) pairs of the running pass
    doc,                \* the dom::Document under construction
    result,             \* what convert_doc returned
    round,              \* 0: first resolve, 1: re-resolve of the dump
    doc0,               \* the Document of round 0, kept for comparison
    new_doc,            \* the svgdom tree conv_doc built
    image,              \* the dom::Image handed to draw
    painter,            \* the draw_image calls the painter received
    ret                 \* what draw returned

vars == <<svg_doc, debug_assertions, pc, stack, doc, result, round, doc0,
          new_doc, image, painter, ret>>

-----------------------------------------------------------------------------
(* Numbers *)

Zero == 0
Half == 50
One == 100
Four == 400
Eps == 1

Abs(x) == IF x < 0 THEN -x ELSE x

fuzzy_eq(a, b) == Abs(a - b) <= Eps
fuzzy_ne(a, b) == ~fuzzy_eq(a, b)

\* f64::round on hundredths (values here are never negative)
f64_round(x) == ((x + Half) \div One) * One

None == <<>>
Some(x) == <<x>>
is_none(o) == o = <<>>
is_some(o) == o # <<>>
unwrap(o) == o[1]
unwrap_or(o, d) == IF o = <<>> THEN d ELSE o[1]

Black == <<0, 0, 0>>
Red == <<255, 0, 0>>

-----------------------------------------------------------------------------
(* svgdom nodes: tag, id, the is_referenced flag, attributes, children.     *)
(* An id is a tuple: <<>> for an element without one, <<"lg1">> for a      *)
(* named element, <<"at", i, j>> for the j-th child of the i-th child of   *)
(* the root, so that every element of an input has an id of its own.       *)

NoAttrs == [a \in {} |-> 0]

Node(tag, id, ref, attrs, kids) ==
    [tag |-> tag, id |-> id, ref |-> ref, attrs |-> attrs, kids |-> kids]

has(attrs, aid) == aid \in DOMAIN attrs

\* AValue::FuncLink / AValue::Link to a node, seen through its tag and id
Link(tag, id) == [kind |-> "link", tag |-> tag, id |-> id, c |-> Black]
\* any other value of a paint or clip-path attribute
ValNone == [kind |-> "none", tag |-> "", id |-> <<>>, c |-> Black]
ValColor(c) == [kind |-> "color", tag |-> "", id |-> <<>>, c |-> c]

get_number(attrs, aid) == IF has(attrs, aid) THEN Some(attrs[aid]) ELSE None
get_color(attrs, aid) == IF has(attrs, aid) THEN Some(attrs[aid]) ELSE None
get_predef(attrs, aid) == IF has(attrs, aid) THEN Some(attrs[aid]) ELSE None
get_path(attrs, aid) == IF has(attrs, aid) THEN Some(attrs[aid]) ELSE None
\* Transform::default() is the identity
get_transform(attrs, aid) == IF has(attrs, aid) THEN Some(attrs[aid]) ELSE None
Identity == "identity"
is_default(ts) == ts = Identity

-----------------------------------------------------------------------------
(* dom::Document: a flat list of nodes, each appended at a depth *)

DEFS_DEPTH == 2

Document_new(svg_kind) ==
    << [depth |-> 0, n |-> svg_kind],
       [depth |-> 1, n |-> [kind |-> "Defs"]] >>

append_node(d, depth, kind) == Append(d, [depth |-> depth, n |-> kind])

\* indices of the children of the node at index i
children(d, i) ==
    { j \in (i + 1)..Len(d) :
        /\ d[j].depth = d[i].depth + 1
        /\ \A k \in (i + 1)..j : d[k].depth > d[i].depth }

\* a set of indices as an increasing sequence
RECURSIVE SortedSeq(_)
SortedSeq(S) ==
    IF S = {} THEN <<>>
    ELSE LET m == CHOOSE x \in S : \A y \in S : x <= y
         IN <<m>> \o SortedSeq(S \ {m})

\* doc.defs(): the definitions entries, in order (as indices)
defs(d) == SortedSeq(children(d, 2))
\* doc.root().children(): the top-level content nodes (as indices)
root_children(d) == SortedSeq(children(d, 1) \ {2})
node_children(d, i) == SortedSeq(children(d, i))
\* doc.defs_at(idx), idx counted from 0
defs_at(d, idx) == defs(d)[idx + 1]
\* doc.defs_index(id): the position of the entry called id
defs_index(d, id) ==
    LET ds == defs(d)
        hits == { k \in 1..Len(ds) : d[ds[k]].n.id = id }
    IN IF hits = {} THEN None
       ELSE Some((CHOOSE k \in hits : \A h \in hits : k <= h) - 1)

-----------------------------------------------------------------------------
(* convert/mod.rs, convert/gradient.rs: the forward resolver *)

svg_element(sd) == sd.svg

\* the first 'defs' child of the svg element
defs_element(sd) ==
    IF is_none(sd.svg) THEN None
    ELSE LET kids == unwrap(sd.svg).kids
             at == { k \in 1..Len(kids) : kids[k].tag = "defs" }
         IN IF at = {} THEN None
            ELSE Some(kids[CHOOSE k \in at : \A h \in at : k <= h])

\* get_img_size that asks for the width only, a missing height counting as 0
get_img_size_width_only(svg) ==
    LET w == get_number(svg.attrs, "width")
        h == get_number(svg.attrs, "height")
    IN IF is_some(w)
       THEN [err |-> "", v |-> <<f64_round(unwrap(w)), f64_round(unwrap_or(h, Zero))>>]
       ELSE [err |-> "InvalidSize", v |-> <<0, 0>>]

get_img_size(svg) ==
    LET w == get_number(svg.attrs, "width")
        h == get_number(svg.attrs, "height")
    IN IF is_some(w) /\ is_some(h)
       THEN [err |-> "", v |-> <<f64_round(unwrap(w)), f64_round(unwrap(h))>>]
       ELSE [err |-> "InvalidSize", v |-> <<0, 0>>]

\* svg.get_viewbox() fails when the attribute is absent or is no rectangle
get_viewbox(svg) ==
    IF has(svg.attrs, "viewBox") /\ Len(svg.attrs["viewBox"]) = 4
    THEN [err |-> "", v |-> svg.attrs["viewBox"]]
    ELSE [err |-> "InvalidViewBox", v |-> <<0, 0, 0, 0>>]

get_view_box(svg) ==
    LET vbox == get_viewbox(svg)
    IN IF vbox.err # "" THEN vbox
       ELSE [err |-> "", v |-> [k \in 1..4 |-> f64_round(vbox.v[k])]]

\* convert_element_units whose fallback arm gives the other unit
convert_element_units_other(attrs, aid) ==
    LET av == get_predef(attrs, aid)
    IN IF av = Some("userSpaceOnUse") THEN "UserSpaceOnUse"
       ELSE "ObjectBoundingBox"

convert_element_units(attrs, aid) ==
    LET av == get_predef(attrs, aid)
    IN IF av = Some("userSpaceOnUse") THEN "UserSpaceOnUse"
       ELSE IF av = Some("objectBoundingBox") THEN "ObjectBoundingBox"
       ELSE "UserSpaceOnUse"

convert_spread_method(attrs) ==
    LET av == unwrap_or(get_predef(attrs, "spreadMethod"), "pad")
    IN CASE av = "pad" -> "Pad"
         [] av = "reflect" -> "Reflect"
         [] av = "repeat" -> "Repeat"
         [] OTHER -> "Pad"

stop_of(s) ==
    [kind |-> "Stop",
     offset |-> unwrap_or(get_number(s.attrs, "offset"), Zero),
     color |-> unwrap_or(get_color(s.attrs, "stop-color"), Black),
     opacity |-> unwrap_or(get_number(s.attrs, "stop-opacity"), One)]

\* convert_stops with 'break' for the 'continue' of line 84
RECURSIVE convert_stops_until_other(_, _)
convert_stops_until_other(kids, d) ==
    IF kids = <<>> THEN d
    ELSE LET s == Head(kids)
         IN IF s.tag # "stop"
            THEN d
            ELSE convert_stops_until_other(Tail(kids),
                                           append_node(d, DEFS_DEPTH + 1, stop_of(s)))

RECURSIVE convert_stops_from(_, _)
convert_stops_from(kids, d) ==
    IF kids = <<>> THEN d
    ELSE LET s == Head(kids)
         IN IF s.tag # "stop"
            THEN convert_stops_from(Tail(kids), d)
            ELSE convert_stops_from(Tail(kids),
                                    append_node(d, DEFS_DEPTH + 1, stop_of(s)))

convert_stops(node, d) == convert_stops_from(node.kids, d)

base_gradient(attrs) ==
    [units |-> convert_element_units(attrs, "gradientUnits"),
     transform |-> unwrap_or(get_transform(attrs, "gradientTransform"), Identity),
     spread_method |-> convert_spread_method(attrs)]

\* convert_linear that follows the gradient's xlink:href and takes the stops
\* of the gradient it names as well
convert_linear_following_href(node, d) ==
    LET own == convert_stops(node,
                   append_node(d, DEFS_DEPTH,
                       [kind |-> "LinearGradient",
                        id |-> node.id,
                        x1 |-> unwrap_or(get_number(node.attrs, "x1"), Zero),
                        y1 |-> unwrap_or(get_number(node.attrs, "y1"), Zero),
                        x2 |-> unwrap_or(get_number(node.attrs, "x2"), One),
                        y2 |-> unwrap_or(get_number(node.attrs, "y2"), Zero),
                        base |-> base_gradient(node.attrs)]))
        named == IF has(node.attrs, "xlink:href") /\ is_some(defs_element(svg_doc))
                 THEN SelectSeq(unwrap(defs_element(svg_doc)).kids,
                                LAMBDA e : e.id = node.attrs["xlink:href"].id)
                 ELSE <<>>
    IN IF named = <<>> THEN own ELSE convert_stops(named[1], own)

convert_linear(node, d) ==
    convert_stops(node,
        append_node(d, DEFS_DEPTH,
            [kind |-> "LinearGradient",
             id |-> node.id,
             x1 |-> unwrap_or(get_number(node.attrs, "x1"), Zero),
             y1 |-> unwrap_or(get_number(node.attrs, "y1"), Zero),
             x2 |-> unwrap_or(get_number(node.attrs, "x2"), One),
             y2 |-> unwrap_or(get_number(node.attrs, "y2"), Zero),
             base |-> base_gradient(node.attrs)]))

convert_radial(node, d) ==
    convert_stops(node,
        append_node(d, DEFS_DEPTH,
            [kind |-> "RadialGradient",
             id |-> node.id,
             cx |-> unwrap_or(get_number(node.attrs, "cx"), Half),
             cy |-> unwrap_or(get_number(node.attrs, "cy"), Half),
             r |-> unwrap_or(get_number(node.attrs, "r"), Half),
             fx |-> unwrap_or(get_number(node.attrs, "fx"), Half),
             fy |-> unwrap_or(get_number(node.attrs, "fy"), Half),
             base |-> base_gradient(node.attrs)]))

-----------------------------------------------------------------------------
(* convert::fill, convert::stroke, convert::path, convert::text,           *)
(* convert::image, convert::shapes: the per-element converters             *)

Color(c) == [kind |-> "Color", c |-> c, idx |-> 0]
PaintLink(idx) == [kind |-> "Link", c |-> Black, idx |-> idx]

\* the paint an attribute value resolves to; a link is looked up by id
resolve_paint(v, d) ==
    CASE v.kind = "color" -> Some(Color(v.c))
      [] v.kind = "link" ->
            LET idx == defs_index(d, v.id)
            IN IF is_some(idx) THEN Some(PaintLink(unwrap(idx))) ELSE None
      [] OTHER -> None

fill_convert(attrs, d) ==
    LET paint == IF has(attrs, "fill") THEN resolve_paint(attrs["fill"], d) ELSE None
    IN IF is_none(paint) THEN None
       ELSE Some([paint |-> unwrap(paint),
                  opacity |-> unwrap_or(get_number(attrs, "fill-opacity"), One),
                  rule |-> IF get_predef(attrs, "fill-rule") = Some("evenodd")
                           THEN "EvenOdd" ELSE "NonZero"])

stroke_convert(attrs, d) ==
    LET paint == IF has(attrs, "stroke") THEN resolve_paint(attrs["stroke"], d) ELSE None
        cap == get_predef(attrs, "stroke-linecap")
        join == get_predef(attrs, "stroke-linejoin")
    IN IF is_none(paint) THEN None
       ELSE Some([paint |-> unwrap(paint),
                  opacity |-> unwrap_or(get_number(attrs, "stroke-opacity"), One),
                  dashoffset |-> unwrap_or(get_number(attrs, "stroke-dashoffset"), Zero),
                  miterlimit |-> unwrap_or(get_number(attrs, "stroke-miterlimit"), Four),
                  width |-> unwrap_or(get_number(attrs, "stroke-width"), One),
                  linecap |-> IF cap = Some("round") THEN "Round"
                              ELSE IF cap = Some("square") THEN "Square" ELSE "Butt",
                  linejoin |-> IF join = Some("round") THEN "Round"
                               ELSE IF join = Some("bevel") THEN "Bevel" ELSE "Miter"])

path_convert(node, pd, depth, d) ==
    append_node(d, depth,
        [kind |-> "Path",
         id |-> node.id,
         transform |-> unwrap_or(get_transform(node.attrs, "transform"), Identity),
         d |-> pd,
         fill |-> fill_convert(node.attrs, d),
         stroke |-> stroke_convert(node.attrs, d)])

\* the external shape -> path data conversion: the input carries its outcome
shapes_convert(node) == get_path(node.attrs, "shape-path")

text_convert(node, depth, d) ==
    append_node(d, depth,
        [kind |-> "Text",
         id |-> node.id,
         transform |-> unwrap_or(get_transform(node.attrs, "transform"), Identity),
         chunks |-> <<>>])

image_convert(node, depth, d) ==
    IF has(node.attrs, "xlink:href")
    THEN append_node(d, depth,
            [kind |-> "Image",
             id |-> node.id,
             transform |-> unwrap_or(get_transform(node.attrs, "transform"), Identity),
             rect |-> [x |-> unwrap_or(get_number(node.attrs, "x"), Zero),
                       y |-> unwrap_or(get_number(node.attrs, "y"), Zero),
                       w |-> unwrap_or(get_number(node.attrs, "width"), Zero),
                       h |-> unwrap_or(get_number(node.attrs, "height"), Zero)],
             data |-> LET href == node.attrs["xlink:href"]
                      IN IF href.kind = "data"
                         THEN [kind |-> "Raw", path |-> href.id,
                               format |-> IF href.tag = "png" THEN "PNG" ELSE "JPEG"]
                         ELSE [kind |-> "Path", path |-> href.id, format |-> ""]])
    ELSE d

-----------------------------------------------------------------------------
(* convert_nodes: one iteration of its loop over a work list.  st.stack    *)
(* holds the elements still to visit, in document order, each with the     *)
(* depth its node would be appended at; a recursive call pushes the        *)
(* children in front of the remaining siblings.                            *)

Frames(kids, depth) == [k \in 1..Len(kids) |-> [node |-> kids[k], depth |-> depth]]

\* group_clip_path without the 'continue' of line 152: an unresolved clip-path
\* is ignored and the group is kept
group_clip_path_kept(attrs, d) ==
    IF has(attrs, "clip-path")
    THEN LET av == attrs["clip-path"]
             v == IF av.kind = "link" /\ av.tag = "clipPath"
                  THEN defs_index(d, av.id)
                  ELSE None
         IN [drop |-> FALSE, v |-> v]
    ELSE [drop |-> FALSE, v |-> None]

\* group_clip_path that records the position counted from 1
group_clip_path_from_one(attrs, d) ==
    IF has(attrs, "clip-path")
    THEN LET av == attrs["clip-path"]
             v == IF av.kind = "link" /\ av.tag = "clipPath"
                  THEN defs_index(d, av.id)
                  ELSE None
         IN [drop |-> is_none(v), v |-> IF is_none(v) THEN v ELSE Some(unwrap(v) + 1)]
    ELSE [drop |-> FALSE, v |-> None]

\* the clip_path of a 'g': drop says the group is to be skipped
group_clip_path(attrs, d) ==
    IF has(attrs, "clip-path")
    THEN LET av == attrs["clip-path"]
             v == IF av.kind = "link" /\ av.tag = "clipPath"
                  THEN defs_index(d, av.id)
                  ELSE None
         IN [drop |-> is_none(v), v |-> v]
    ELSE [drop |-> FALSE, v |-> None]

\* convert_group that recurses at depth for the depth + 1 of line 170
convert_group_flat(node, depth, st) ==
    LET clip == group_clip_path(node.attrs, st.doc)
        rest == Tail(st.stack)
    IN IF debug_assertions /\ node.kids = <<>>
       THEN [st EXCEPT !.panicked = TRUE]
       ELSE IF clip.drop
       THEN [st EXCEPT !.stack = rest]
       ELSE [st EXCEPT
               !.doc = append_node(st.doc, depth,
                          [kind |-> "Group",
                           id |-> node.id,
                           transform |-> unwrap_or(get_transform(node.attrs, "transform"),
                                                   Identity),
                           opacity |-> get_number(node.attrs, "opacity"),
                           clip_path |-> clip.v]),
               !.stack = Frames(node.kids, depth) \o rest]

convert_group(node, depth, st) ==
    LET clip == group_clip_path(node.attrs, st.doc)
        rest == Tail(st.stack)
    IN IF debug_assertions /\ node.kids = <<>>
       THEN [st EXCEPT !.panicked = TRUE]
       ELSE IF clip.drop
       THEN [st EXCEPT !.stack = rest]
       ELSE [st EXCEPT
               !.doc = append_node(st.doc, depth,
                          [kind |-> "Group",
                           id |-> node.id,
                           transform |-> unwrap_or(get_transform(node.attrs, "transform"),
                                                   Identity),
                           opacity |-> get_number(node.attrs, "opacity"),
                           clip_path |-> clip.v]),
               !.stack = Frames(node.kids, depth + 1) \o rest]

\* convert_nodes_step without the is_referenced test of line 119
convert_nodes_step_referenced_too(st) ==
    LET node == Head(st.stack).node
        depth == Head(st.stack).depth
        skip == [st EXCEPT !.stack = Tail(st.stack)]
        put(d) == [st EXCEPT !.doc = d, !.stack = Tail(st.stack)]
    IN CASE node.tag \in {"title", "desc", "metadata", "defs"} -> skip
         [] node.tag = "g" -> convert_group(node, depth, st)
         [] node.tag \in {"line", "rect", "polyline", "polygon", "circle", "ellipse"} ->
               IF is_some(shapes_convert(node))
               THEN put(path_convert(node, unwrap(shapes_convert(node)), depth, st.doc))
               ELSE skip
         [] node.tag \in {"use", "switch"} -> skip
         [] node.tag = "svg" -> skip
         [] node.tag = "path" ->
               IF is_some(get_path(node.attrs, "d"))
               THEN put(path_convert(node, unwrap(get_path(node.attrs, "d")),
                                     depth, st.doc))
               ELSE skip
         [] node.tag = "text" -> put(text_convert(node, depth, st.doc))
         [] node.tag = "image" -> put(image_convert(node, depth, st.doc))
         [] OTHER -> skip

convert_nodes_step(st) ==
    LET node == Head(st.stack).node
        depth == Head(st.stack).depth
        skip == [st EXCEPT !.stack = Tail(st.stack)]
        put(d) == [st EXCEPT !.doc = d, !.stack = Tail(st.stack)]
    IN IF node.ref THEN skip
       ELSE CASE node.tag \in {"title", "desc", "metadata", "defs"} -> skip
              [] node.tag = "g" -> convert_group(node, depth, st)
              [] node.tag \in {"line", "rect", "polyline", "polygon", "circle", "ellipse"} ->
                    IF is_some(shapes_convert(node))
                    THEN put(path_convert(node, unwrap(shapes_convert(node)), depth, st.doc))
                    ELSE skip
              [] node.tag \in {"use", "switch"} -> skip
              [] node.tag = "svg" -> skip
              [] node.tag = "path" ->
                    IF is_some(get_path(node.attrs, "d"))
                    THEN put(path_convert(node, unwrap(get_path(node.attrs, "d")),
                                          depth, st.doc))
                    ELSE skip
              [] node.tag = "text" -> put(text_convert(node, depth, st.doc))
              [] node.tag = "image" -> put(image_convert(node, depth, st.doc))
              [] OTHER -> skip

\* convert_nodes(parent, opt, depth, doc) run to its return (or to a panic)
RECURSIVE convert_nodes_run(_)
convert_nodes_run(st) ==
    IF st.panicked \/ st.stack = <<>> THEN st
    ELSE convert_nodes_run(convert_nodes_step(st))

convert_nodes(parent, depth, d) ==
    convert_nodes_run([doc |-> d, stack |-> Frames(parent.kids, depth),
                       panicked |-> FALSE])

-----------------------------------------------------------------------------
(* convert::clippath, convert::pattern and the definitions pass *)

clippath_convert(node, d) ==
    convert_nodes(node, DEFS_DEPTH + 1,
        append_node(d, DEFS_DEPTH,
            [kind |-> "ClipPath",
             id |-> node.id,
             units |-> convert_element_units(node.attrs, "clipPathUnits"),
             transform |-> unwrap_or(get_transform(node.attrs, "transform"), Identity)]))

pattern_convert(node, d) ==
    convert_nodes(node, DEFS_DEPTH + 1,
        append_node(d, DEFS_DEPTH,
            [kind |-> "Pattern",
             id |-> node.id,
             rect |-> [x |-> unwrap_or(get_number(node.attrs, "x"), Zero),
                       y |-> unwrap_or(get_number(node.attrs, "y"), Zero),
                       w |-> unwrap_or(get_number(node.attrs, "width"), Zero),
                       h |-> unwrap_or(get_number(node.attrs, "height"), Zero)],
             view_box |-> IF has(node.attrs, "viewBox")
                          THEN Some(node.attrs["viewBox"]) ELSE None,
             units |-> convert_element_units(node.attrs, "patternUnits"),
             content_units |-> convert_element_units(node.attrs, "patternContentUnits"),
             transform |-> unwrap_or(get_transform(node.attrs, "patternTransform"),
                                     Identity)]))

\* convert_ref_nodes_step without the is_referenced test of line 88
convert_ref_nodes_step_all(st) ==
    LET node == Head(st.stack).node
        rest == Tail(st.stack)
        put(d) == [st EXCEPT !.doc = d, !.stack = rest]
        sub(r) == [doc |-> r.doc, stack |-> rest, panicked |-> r.panicked]
    IN CASE node.tag = "linearGradient" -> put(convert_linear(node, st.doc))
         [] node.tag = "radialGradient" -> put(convert_radial(node, st.doc))
         [] node.tag = "clipPath" -> sub(clippath_convert(node, st.doc))
         [] node.tag = "pattern" -> sub(pattern_convert(node, st.doc))
         [] OTHER -> [st EXCEPT !.stack = rest]

\* one iteration of the loop of convert_ref_nodes over the children of 'defs'
convert_ref_nodes_step(st) ==
    LET node == Head(st.stack).node
        rest == Tail(st.stack)
        put(d) == [st EXCEPT !.doc = d, !.stack = rest]
        sub(r) == [doc |-> r.doc, stack |-> rest, panicked |-> r.panicked]
    IN IF ~node.ref THEN [st EXCEPT !.stack = rest]
       ELSE CASE node.tag = "linearGradient" -> put(convert_linear(node, st.doc))
              [] node.tag = "radialGradient" -> put(convert_radial(node, st.doc))
              [] node.tag = "clipPath" -> sub(clippath_convert(node, st.doc))
              [] node.tag = "pattern" -> sub(pattern_convert(node, st.doc))
              [] OTHER -> [st EXCEPT !.stack = rest]

\* convert_doc up to the creation of the Document
convert_doc_head(sd) ==
    IF is_none(svg_element(sd)) THEN [err |-> "MissingSvgNode", doc |-> <<>>]
    ELSE LET svg == unwrap(svg_element(sd))
             size == get_img_size(svg)
             view_box == get_view_box(svg)
         IN IF size.err # "" THEN [err |-> size.err, doc |-> <<>>]
            ELSE IF view_box.err # "" THEN [err |-> view_box.err, doc |-> <<>>]
            ELSE [err |-> "",
                  doc |-> Document_new([kind |-> "Svg", size |-> size.v,
                                        view_box |-> view_box.v])]

-----------------------------------------------------------------------------
(* dom/dump.rs: the inverse serializer.  An unwrap() of None aborts the    *)
(* whole of conv_doc; the operators below leave the attribute "panicked"   *)
(* at the place of the unwrap, and conv_doc returns no tree when the tree  *)
(* it built carries one.                                                   *)

Attr(cond, aid, v) == IF cond THEN aid :> v ELSE NoAttrs

Panicked == "panicked" :> TRUE

tag_of(kind) ==
    CASE kind = "LinearGradient" -> "linearGradient"
      [] kind = "RadialGradient" -> "radialGradient"
      [] kind = "ClipPath" -> "clipPath"
      [] kind = "Pattern" -> "pattern"

link_to(n) == Link(tag_of(n.kind), n.id)

\* defs.children().nth(id): present counts the children 'defs' has so far
defs_nth(D, present, id) ==
    IF id < present THEN Some(link_to(D[defs_at(D, id)].n)) ELSE None

\* node.set_attribute((aid, link.unwrap()))
set_link(aid, link) == IF is_none(link) THEN Panicked ELSE aid :> unwrap(link)

conv_transform(aid, ts) == Attr(~is_default(ts), aid, ts)

conv_units(aid, units) ==
    aid :> (IF units = "UserSpaceOnUse" THEN "userSpaceOnUse" ELSE "objectBoundingBox")

\* the attributes conv_element sets; the id goes to the element itself
conv_element(n) == conv_transform("transform", n.transform)

conv_paint(aid, paint, D, present) ==
    IF paint.kind = "Color"
    THEN aid :> ValColor(paint.c)
    ELSE set_link(aid, defs_nth(D, present, paint.idx))

\* fill_attrs without lines 289-295: the fill rule is never written
fill_attrs_no_rule(f, D, present, parent_tag) ==
    conv_paint("fill", f.paint, D, present)
        @@ Attr(fuzzy_ne(f.opacity, One), "fill-opacity", f.opacity)

fill_attrs(f, D, present, parent_tag) ==
    conv_paint("fill", f.paint, D, present)
        @@ Attr(fuzzy_ne(f.opacity, One), "fill-opacity", f.opacity)
        @@ Attr(f.rule # "NonZero",
                IF parent_tag = "clipPath" THEN "clip-rule" ELSE "fill-rule",
                "evenodd")

conv_fill(fill, D, present, parent_tag) ==
    IF is_some(fill)
    THEN fill_attrs(unwrap(fill), D, present, parent_tag)
    ELSE "fill" :> ValNone

\* stroke_attrs without the test of line 330: the width is always written
stroke_attrs_always_width(t, D, present) ==
    conv_paint("stroke", t.paint, D, present)
        @@ Attr(fuzzy_ne(t.opacity, One), "stroke-opacity", t.opacity)
        @@ Attr(fuzzy_ne(t.dashoffset, Zero), "stroke-dashoffset", t.dashoffset)
        @@ Attr(fuzzy_ne(t.miterlimit, Four), "stroke-miterlimit", t.miterlimit)
        @@ ("stroke-width" :> t.width)
        @@ Attr(t.linecap # "Butt", "stroke-linecap",
                IF t.linecap = "Round" THEN "round"
                ELSE IF t.linecap = "Square" THEN "square" ELSE "butt")
        @@ Attr(t.linejoin # "Miter", "stroke-linejoin",
                IF t.linejoin = "Round" THEN "round"
                ELSE IF t.linejoin = "Bevel" THEN "bevel" ELSE "miter")

stroke_attrs(t, D, present) ==
    conv_paint("stroke", t.paint, D, present)
        @@ Attr(fuzzy_ne(t.opacity, One), "stroke-opacity", t.opacity)
        @@ Attr(fuzzy_ne(t.dashoffset, Zero), "stroke-dashoffset", t.dashoffset)
        @@ Attr(fuzzy_ne(t.miterlimit, Four), "stroke-miterlimit", t.miterlimit)
        @@ Attr(fuzzy_ne(t.width, One), "stroke-width", t.width)
        @@ Attr(t.linecap # "Butt", "stroke-linecap",
                IF t.linecap = "Round" THEN "round"
                ELSE IF t.linecap = "Square" THEN "square" ELSE "butt")
        @@ Attr(t.linejoin # "Miter", "stroke-linejoin",
                IF t.linejoin = "Round" THEN "round"
                ELSE IF t.linejoin = "Bevel" THEN "bevel" ELSE "miter")

conv_stroke(stroke, D, present) ==
    IF is_some(stroke)
    THEN stroke_attrs(unwrap(stroke), D, present)
    ELSE "stroke" :> ValNone

conv_font(font) ==
    ("font-family" :> font.family) @@ ("font-size" :> font.size)
        @@ Attr(font.style # "Normal", "font-style",
                IF font.style = "Italic" THEN "italic" ELSE "oblique")

tspan_element(tspan, D, present, parent_tag) ==
    Node("tspan", <<>>, FALSE,
         conv_fill(tspan.fill, D, present, parent_tag)
             @@ conv_stroke(tspan.stroke, D, present)
             @@ conv_font(tspan.font),
         <<>>)

chunk_element(chunk, D, present, parent_tag) ==
    Node("tspan", <<>>, FALSE,
         ("x" :> chunk.x) @@ ("y" :> chunk.y)
             @@ Attr(chunk.anchor # "Start", "text-anchor",
                     IF chunk.anchor = "Middle" THEN "middle" ELSE "end"),
         [k \in 1..Len(chunk.spans) |->
             tspan_element(chunk.spans[k], D, present, parent_tag)])

\* the href of an image element
conv_href(data) ==
    IF data.kind = "Path"
    THEN [kind |-> "file", tag |-> "", id |-> data.path, c |-> Black]
    ELSE [kind |-> "data",
          tag |-> IF data.format = "PNG" THEN "png" ELSE "jpg",
          id |-> data.path, c |-> Black]

group_attrs(g, D, present) ==
    conv_element(g)
        @@ (IF is_some(g.clip_path)
            THEN set_link("clip-path", defs_nth(D, present, unwrap(g.clip_path)))
            ELSE NoAttrs)
        @@ Attr(is_some(g.opacity) /\ fuzzy_ne(unwrap_or(g.opacity, One), One),
                "opacity", unwrap_or(g.opacity, One))

\* conv_elements: the elements appended to parent for the children of root
RECURSIVE conv_elements(_, _, _, _)
conv_element_of(i, D, present, parent_tag) ==
    CASE D[i].n.kind = "Path" ->
           Node("path", D[i].n.id, FALSE,
                conv_element(D[i].n) @@ ("d" :> D[i].n.d)
                    @@ conv_fill(D[i].n.fill, D, present, parent_tag)
                    @@ conv_stroke(D[i].n.stroke, D, present),
                <<>>)
      [] D[i].n.kind = "Text" ->
           Node("text", D[i].n.id, FALSE, conv_element(D[i].n),
                [k \in 1..Len(D[i].n.chunks) |->
                    chunk_element(D[i].n.chunks[k], D, present, parent_tag)])
      [] D[i].n.kind = "Image" ->
           Node("image", D[i].n.id, FALSE,
                conv_element(D[i].n)
                    @@ ("x" :> D[i].n.rect.x) @@ ("y" :> D[i].n.rect.y)
                    @@ ("width" :> D[i].n.rect.w) @@ ("height" :> D[i].n.rect.h)
                    @@ ("xlink:href" :> conv_href(D[i].n.data)),
                <<>>)
      [] D[i].n.kind = "Group" ->
           Node("g", D[i].n.id, FALSE, group_attrs(D[i].n, D, present),
                conv_elements(i, D, present, "g"))

elements_at(ns, D, present, parent_tag) ==
    [k \in 1..Len(ns) |-> conv_element_of(ns[k], D, present, parent_tag)]

\* conv_elements without line 255: nothing is appended to a 'g'
conv_elements_not_below_g(root, D, present, parent_tag) ==
    IF parent_tag = "g" THEN <<>>
    ELSE elements_at(SortedSeq(children(D, root) \ {2}), D, present, parent_tag)

conv_elements(root, D, present, parent_tag) ==
    elements_at(SortedSeq(children(D, root) \ {2}), D, present, parent_tag)

stop_element(s) ==
    Node("stop", <<>>, FALSE,
         ("offset" :> s.offset) @@ ("stop-color" :> s.color)
             @@ ("stop-opacity" :> s.opacity),
         <<>>)

stop_elements(D, stops) == [k \in 1..Len(stops) |-> stop_element(D[stops[k]].n)]

\* the attributes conv_base_grad sets; its stop children are stop_elements
conv_base_grad(g) ==
    conv_units("gradientUnits", g.units)
        @@ ("spreadMethod" :>
               (IF g.spread_method = "Pad" THEN "pad"
                ELSE IF g.spread_method = "Reflect" THEN "reflect"
                ELSE "repeat"))
        @@ conv_transform("gradientTransform", g.transform)

\* the element conv_defs appends for the definitions entry n at index i, the
\* k-th entry (k from 1)
conv_defs_entry(D, i, n, k) ==
    CASE n.kind = "LinearGradient" ->
           Node("linearGradient", n.id, FALSE,
                ("x1" :> n.x1) @@ ("y1" :> n.y1) @@ ("x2" :> n.x2) @@ ("y2" :> n.y2)
                    @@ conv_base_grad(n.base),
                stop_elements(D, node_children(D, i)))
      [] n.kind = "RadialGradient" ->
           Node("radialGradient", n.id, FALSE,
                ("cx" :> n.cx) @@ ("cy" :> n.cy) @@ ("r" :> n.r)
                    @@ ("fx" :> n.fx) @@ ("fy" :> n.fy)
                    @@ conv_base_grad(n.base),
                stop_elements(D, node_children(D, i)))
      [] n.kind = "ClipPath" ->
           Node("clipPath", n.id, FALSE,
                conv_units("clipPathUnits", n.units)
                    @@ conv_transform("transform", n.transform),
                conv_elements(i, D, k, "clipPath"))
      [] n.kind = "Pattern" ->
           Node("pattern", n.id, FALSE,
                ("x" :> n.rect.x) @@ ("y" :> n.rect.y)
                    @@ ("width" :> n.rect.w) @@ ("height" :> n.rect.h)
                    @@ Attr(is_some(n.view_box), "viewBox", unwrap_or(n.view_box, <<>>))
                    @@ conv_units("patternUnits", n.units)
                    @@ conv_units("patternContentUnits", n.content_units)
                    @@ conv_transform("patternTransform", n.transform),
                conv_elements(i, D, k, "pattern"))

defs_elements(D, ds) == [k \in 1..Len(ds) |-> conv_defs_entry(D, ds[k], D[ds[k]].n, k)]

\* conv_defs appending the entries last to first
conv_defs_reversed(D) ==
    [k \in 1..Len(defs(D)) |->
        conv_defs_entry(D, defs(D)[Len(defs(D)) + 1 - k],
                        D[defs(D)[Len(defs(D)) + 1 - k]].n, Len(defs(D)) + 1 - k)]

conv_defs(D) == defs_elements(D, defs(D))

\* node.is_referenced(): svgdom records on a node every attribute linking to it
RECURSIVE linked_ids(_)
linked_ids(node) ==
    { node.attrs[a].id :
        a \in { b \in DOMAIN node.attrs \cap {"fill", "stroke", "clip-path", "xlink:href"} :
                  node.attrs[b].kind = "link" } }
    \cup UNION { linked_ids(node.kids[k]) : k \in 1..Len(node.kids) }

RECURSIVE mark_referenced(_, _)
mark_referenced(node, ids) ==
    [node EXCEPT !.ref = node.id \in ids,
                 !.kids = [k \in 1..Len(node.kids) |->
                              mark_referenced(node.kids[k], ids)]]

referenced(node) == mark_referenced(node, linked_ids(node))

RECURSIVE has_panicked(_)
has_panicked(node) ==
    \/ has(node.attrs, "panicked")
    \/ \E k \in 1..Len(node.kids) : has_panicked(node.kids[k])

svg_element_of(svg_node, kids) ==
    Node("svg", <<>>, FALSE,
         ("width" :> svg_node.size[1]) @@ ("height" :> svg_node.size[2])
             @@ ("viewBox" :> svg_node.view_box),
         kids)

finish(svg) ==
    IF has_panicked(svg)
    THEN [panicked |-> TRUE, tree |-> [svg |-> None]]
    ELSE [panicked |-> FALSE, tree |-> [svg |-> Some(referenced(svg))]]

\* conv_doc with lines 44 and 41-42 after line 45: 'defs' is appended last
conv_doc_defs_last(D) ==
    finish(svg_element_of(D[1].n,
               conv_elements(1, D, Len(defs(D)), "svg")
                   \o <<Node("defs", <<>>, FALSE, NoAttrs, conv_defs(D))>>))

conv_doc(D) ==
    finish(svg_element_of(D[1].n,
               <<Node("defs", <<>>, FALSE, NoAttrs, conv_defs(D))>>
                   \o conv_elements(1, D, Len(defs(D)), "svg")))

-----------------------------------------------------------------------------
(* The input trees.  is_referenced is what svgdom derives from the links   *)
(* of the tree, so every input is passed through referenced().             *)

MaxKids == 2
MaxTop == 2
MaxStops == 2

\* the sequences over S of length at most n
RECURSIVE SeqUpTo(_, _)
SeqUpTo(S, n) ==
    IF n = 0 THEN {<<>>}
    ELSE { <<>> } \cup { <<x>> \o q : x \in S, q \in SeqUpTo(S, n - 1) }

\* the function f on the keys that are in keep
Restrict(f, keep) == [a \in DOMAIN f \cap keep |-> f[a]]

Elem(tag, id, attrs, kids) == Node(tag, id, FALSE, attrs, kids)

\* every element without an id is named after its place in the tree
RECURSIVE relabel(_, _)
relabel(node, at) ==
    [node EXCEPT !.id = IF node.id = <<>> THEN <<"at">> \o at ELSE node.id,
                 !.kids = [k \in 1..Len(node.kids) |->
                              relabel(node.kids[k], Append(at, k))]]

SvgAttrs == ("width" :> 120) @@ ("height" :> 80) @@ ("viewBox" :> <<0, 0, 120, 80>>)

Tree(kids) == [svg |-> Some(Elem("svg", <<>>, SvgAttrs, kids))]

Input(tree) ==
    IF is_none(tree.svg) THEN tree
    ELSE [svg |-> Some(referenced(relabel(unwrap(tree.svg), <<>>)))]

Defs(kids) == Elem("defs", <<>>, NoAttrs, kids)

StopEl(attrs) == Elem("stop", <<>>, attrs, <<>>)
StopAttrs == ("offset" :> 30) @@ ("stop-color" :> Red) @@ ("stop-opacity" :> Half)

Lg1 == Elem("linearGradient", <<"lg1">>, NoAttrs, <<StopEl(StopAttrs)>>)
LinearAttrs == ("x1" :> 10) @@ ("y1" :> 20) @@ ("x2" :> 30) @@ ("y2" :> 40)
RadialAttrs == ("cx" :> 10) @@ ("cy" :> 20) @@ ("r" :> 30) @@ ("fx" :> 40) @@ ("fy" :> 60)
Lg2 ==
    Elem("linearGradient", <<"lg2">>,
         LinearAttrs @@ ("gradientUnits" :> "objectBoundingBox")
             @@ ("spreadMethod" :> "reflect") @@ ("gradientTransform" :> "matrix"),
         <<StopEl("offset" :> 70), StopEl("stop-color" :> Red)>>)

PathColor ==
    Elem("path", <<>>,
         ("d" :> "M 0 0 L 1 1") @@ ("fill" :> ValColor(Red)) @@ ("fill-opacity" :> One + Eps)
             @@ ("stroke" :> ValColor(Black)) @@ ("stroke-width" :> One - Eps)
             @@ ("stroke-linecap" :> "round"),
         <<>>)
PathLinkTo(id) ==
    Elem("path", <<>>,
         ("d" :> "M 2 2 L 3 3") @@ ("fill" :> Link("linearGradient", id))
             @@ ("fill-rule" :> "evenodd") @@ ("transform" :> "matrix"),
         <<>>)
PathLink == PathLinkTo(<<"lg1">>)
Use == Elem("use", <<>>, NoAttrs, <<>>)

Clip1 == Elem("clipPath", <<"c1">>, "clipPathUnits" :> "userSpaceOnUse",
              <<Elem("path", <<>>, ("d" :> "M 4 4") @@ ("fill" :> ValColor(Black)), <<>>)>>)
\* a clipPath outside 'defs': linked, so referenced, but never a definitions entry
Clip2 == Elem("clipPath", <<"c2">>, NoAttrs, <<>>)

\* the values of a clip-path attribute
ClipOk == Link("clipPath", <<"c1">>)
ClipAbsent == Link("clipPath", <<"c2">>)
ClipWrongTag == Link("linearGradient", <<"lg1">>)
ClipValues == {ClipOk, ClipAbsent, ClipWrongTag, ValNone}

G(clip, attrs, kids) ==
    Elem("g", <<>>, attrs @@ Attr(is_some(clip), "clip-path", unwrap_or(clip, ValNone)), kids)

InnerGroups ==
    { G(None, NoAttrs, <<PathColor>>),
      G(Some(ClipAbsent), NoAttrs, <<PathLink>>),
      G(None, "opacity" :> One, <<Use>>) }

OuterGroups ==
    { G(clip, "opacity" :> Half, kids) :
        clip \in {None} \cup { Some(v) : v \in ClipValues },
        kids \in SeqUpTo({PathColor, PathLink, Use} \cup InnerGroups, MaxKids) }

\* groups, clipped or not, over two orders of the definitions
GroupInputs ==
    { Tree(<<Defs(ds)>> \o <<g>> \o tail \o <<Clip2>>) :
        ds \in { <<Lg1, Clip1>>, <<Clip1, Lg1>> },
        g \in OuterGroups,
        tail \in { <<>>, <<G(Some(ClipOk), NoAttrs, <<PathColor>>)>> } }

\* the svg element missing, or missing some of width, height and viewBox
FatalInputs ==
    { [svg |-> None],
      [svg |-> Some(Elem("svg", <<>>, ("width" :> 120) @@ ("height" :> 80)
                                          @@ ("viewBox" :> <<0, 0>>), <<PathColor>>))] }
    \cup { [svg |-> Some(Elem("svg", <<>>, Restrict(SvgAttrs, keep),
                              <<Defs(<<Lg1>>), PathLink>>))] :
             keep \in SUBSET {"width", "height", "viewBox"} }

\* unsupported, unresolved, empty and referenced elements among the content
MiscElems ==
    { Use,
      Elem("use", <<>>, "xlink:href" :> Link("path", <<"pr">>), <<>>),
      Elem("path", <<"pr">>, ("d" :> "M 5 5") @@ ("fill" :> ValColor(Red)), <<>>),
      Elem("switch", <<>>, NoAttrs, <<PathColor>>),
      Elem("svg", <<>>, SvgAttrs, <<PathColor>>),
      Elem("a", <<>>, NoAttrs, <<PathColor>>),
      Elem("title", <<>>, NoAttrs, <<>>),
      Elem("rect", <<>>, ("shape-path" :> "M 6 6") @@ ("fill" :> ValColor(Red)), <<>>),
      Elem("rect", <<>>, NoAttrs, <<>>),
      Elem("path", <<>>, "fill" :> ValColor(Red), <<>>),
      Elem("text", <<>>, NoAttrs, <<>>),
      Elem("image", <<>>,
           ("x" :> 10) @@ ("y" :> 20) @@ ("width" :> 30) @@ ("height" :> 40)
               @@ ("xlink:href" :> [kind |-> "file", tag |-> "", id |-> <<"a.png">>,
                                    c |-> Black]),
           <<>>),
      G(None, NoAttrs, <<>>),
      G(None, NoAttrs, <<Use>>),
      PathLink }

MiscInputs ==
    { Tree(front \o kids) :
        front \in { <<>>, <<Defs(<<Elem("font", <<"f1">>, NoAttrs, <<>>), Lg1>>)>> },
        kids \in SeqUpTo(MiscElems, MaxTop) }

\* one gradient with every subset of its attributes, and every keyword
Keywords(aid, words) == {NoAttrs} \cup { aid :> w : w \in words }

GradientInputs ==
    { Tree(<<Defs(<<Elem("linearGradient", <<"lg1">>,
                         Restrict(LinearAttrs, keep) @@ units @@ spread @@ ts,
                         <<StopEl(StopAttrs)>>)>>),
             PathLink>>) :
        keep \in SUBSET DOMAIN LinearAttrs,
        units \in Keywords("gradientUnits",
                           {"userSpaceOnUse", "objectBoundingBox", "inherit"}),
        spread \in Keywords("spreadMethod", {"pad", "reflect", "repeat", "inherit"}),
        ts \in Keywords("gradientTransform", {"matrix"}) }
    \cup
    { Tree(<<Defs(<<Elem("radialGradient", <<"rg1">>,
                         Restrict(RadialAttrs, keep) @@ units @@ spread,
                         <<StopEl(StopAttrs)>>)>>),
             PathLinkTo(<<"rg1">>)>>) :
        keep \in SUBSET DOMAIN RadialAttrs,
        units \in Keywords("gradientUnits",
                           {"userSpaceOnUse", "objectBoundingBox", "inherit"}),
        spread \in Keywords("spreadMethod", {"pad", "reflect", "repeat", "inherit"}) }

\* the children of a gradient: stops with any of their attributes, and others
StopKids ==
    { StopEl(Restrict(StopAttrs, keep)) : keep \in SUBSET DOMAIN StopAttrs }
    \cup { Elem("set", <<>>, "offset" :> 90, <<>>) }

\* a gradient that may link to another one, lg2, before or after it
StopInputs ==
    { Tree(<<Defs(IF first THEN <<g, Lg2>> ELSE <<Lg2, g>>), PathLinkTo(<<"gr">>)>>) :
        first \in BOOLEAN,
        g \in { Elem(tag, <<"gr">>, href, kids) :
                  tag \in {"linearGradient", "radialGradient"},
                  href \in {NoAttrs, "xlink:href" :> Link("linearGradient", <<"lg2">>)},
                  kids \in SeqUpTo(StopKids, MaxStops) } }

\* the children of 'defs': gradients linked or not, a linked element that is
\* no definition, a linked clipPath that holds a linked gradient, a pattern
DefsPool ==
    { Lg1, Lg2,
      Elem("filter", <<"f1">>, NoAttrs, <<>>),
      Elem("clipPath", <<"cn">>, NoAttrs,
           <<Elem("linearGradient", <<"lgn">>, NoAttrs, <<StopEl(StopAttrs)>>),
             Elem("path", <<>>, ("d" :> "M 7 7") @@ ("fill" :> ValColor(Black)), <<>>)>>),
      Elem("pattern", <<"pt">>, ("width" :> 10) @@ ("height" :> 10),
           <<Elem("path", <<>>, ("d" :> "M 8 8") @@ ("fill" :> ValColor(Red)), <<>>)>>) }

\* a group that a 'use' links to
GroupRef == Elem("g", <<"gref">>, NoAttrs, <<PathColor>>)

DefsInputs ==
    { Tree(<<Defs(ds), PathLink,
             Elem("use", <<>>, "xlink:href" :> Link("filter", <<"f1">>), <<>>),
             PathLinkTo(<<"lgn">>),
             G(Some(Link("clipPath", <<"cn">>)), NoAttrs,
               <<Elem("path", <<>>,
                      ("d" :> "M 9 9") @@ ("stroke" :> Link("pattern", <<"pt">>)), <<>>)>>),
             Elem("use", <<>>, "xlink:href" :> Link("g", <<"gref">>), <<>>),
             GroupRef>>) :
        ds \in SeqUpTo(DefsPool, MaxTop) }

\* the ids of the elements of a tree, one for each element
RECURSIVE id_list(_, _)
id_list(kids, k) ==
    IF k > Len(kids) THEN <<>>
    ELSE <<kids[k].id>> \o id_list(kids[k].kids, 1) \o id_list(kids, k + 1)

\* an id names one element
unique_ids(tree) ==
    \/ is_none(tree.svg)
    \/ LET ids == SelectSeq(id_list(unwrap(tree.svg).kids, 1), LAMBDA i : i # <<>>)
       IN Cardinality({ ids[k] : k \in 1..Len(ids) }) = Len(ids)

-----------------------------------------------------------------------------
(* The state machine *)

Inputs ==
    { t \in FatalInputs \cup MiscInputs \cup GroupInputs \cup GradientInputs
               \cup StopInputs \cup DefsInputs : unique_ids(t) }

NoImage == [rect |-> [x |-> 0, y |-> 0, w |-> 0, h |-> 0],
            data |-> [kind |-> "Path", path |-> <<>>, format |-> ""]]

Init ==
    /\ svg_doc \in { Input(t) : t \in Inputs }
    /\ debug_assertions \in BOOLEAN
    /\ pc = "start"
    /\ stack = <<>>
    /\ doc = <<>>
    /\ result = ""
    /\ round = 0
    /\ doc0 = <<>>
    /\ new_doc = [svg |-> None]
    /\ image = NoImage
    /\ painter = <<>>
    /\ ret = None

\* convert_doc, lines 50-66: the fatal checks, then Document::new
ConvertDoc ==
    /\ pc = "start"
    /\ LET head == convert_doc_head(svg_doc)
       IN IF head.err # ""
          THEN /\ pc' = "returned"
               /\ result' = head.err
               /\ UNCHANGED <<doc, stack>>
          ELSE /\ pc' = "ref_nodes"
               /\ doc' = head.doc
               /\ stack' = IF is_some(defs_element(svg_doc))
                           THEN Frames(unwrap(defs_element(svg_doc)).kids, DEFS_DEPTH)
                           ELSE <<>>
               /\ UNCHANGED result
    /\ UNCHANGED <<svg_doc, debug_assertions, round, doc0, new_doc, image, painter, ret>>

\* one iteration of the loop of convert_ref_nodes
ConvertRefNode ==
    /\ pc = "ref_nodes"
    /\ stack # <<>>
    /\ LET st == convert_ref_nodes_step([doc |-> doc, stack |-> stack, panicked |-> FALSE])
       IN /\ doc' = st.doc
          /\ stack' = st.stack
          /\ pc' = IF st.panicked THEN "panicked" ELSE pc
          /\ result' = IF st.panicked THEN "panic" ELSE result
    /\ UNCHANGED <<svg_doc, debug_assertions, round, doc0, new_doc, image, painter, ret>>

\* convert_ref_nodes returns; convert_nodes(&svg, opt, 1, &mut doc) is entered
EnterConvertNodes ==
    /\ pc = "ref_nodes"
    /\ stack = <<>>
    /\ pc' = "nodes"
    /\ stack' = Frames(unwrap(svg_element(svg_doc)).kids, 1)
    /\ UNCHANGED <<svg_doc, debug_assertions, doc, result, round, doc0, new_doc,
                   image, painter, ret>>

\* one iteration of the loop of convert_nodes
ConvertNode ==
    /\ pc = "nodes"
    /\ stack # <<>>
    /\ LET st == convert_nodes_step([doc |-> doc, stack |-> stack, panicked |-> FALSE])
       IN /\ doc' = st.doc
          /\ stack' = st.stack
          /\ pc' = IF st.panicked THEN "panicked" ELSE pc
          /\ result' = IF st.panicked THEN "panic" ELSE result
    /\ UNCHANGED <<svg_doc, debug_assertions, round, doc0, new_doc, image, painter, ret>>

\* convert_doc, line 71: Ok(doc)
ReturnDoc ==
    /\ pc = "nodes"
    /\ stack = <<>>
    /\ pc' = "returned"
    /\ result' = "Ok"
    /\ UNCHANGED <<svg_doc, debug_assertions, stack, doc, round, doc0, new_doc,
                   image, painter, ret>>

\* dom::dump::conv_doc on the Document convert_doc returned
ConvDoc ==
    /\ pc = "returned"
    /\ result = "Ok"
    /\ round = 0
    /\ LET out == conv_doc(doc)
       IN /\ new_doc' = out.tree
          /\ pc' = IF out.panicked THEN "dump_panicked" ELSE "dumped"
    /\ UNCHANGED <<svg_doc, debug_assertions, stack, doc, result, round, doc0,
                   image, painter, ret>>

\* the dumped tree is resolved again
ReResolve ==
    /\ pc = "dumped"
    /\ svg_doc' = new_doc
    /\ doc0' = doc
    /\ round' = 1
    /\ pc' = "start"
    /\ doc' = <<>>
    /\ result' = ""
    /\ UNCHANGED <<debug_assertions, stack, new_doc, image, painter, ret>>

Next ==
    \/ ConvertDoc
    \/ ConvertRefNode
    \/ EnterConvertNodes
    \/ ConvertNode
    \/ ReturnDoc
    \/ ConvDoc
    \/ ReResolve

Spec == Init /\ [][Next]_vars

-----------------------------------------------------------------------------
(* conv_doc as a function of any Document: the Documents below are built   *)
(* with Document_new and append_node, their link indices all within the    *)
(* definitions list.                                                       *)

MaxDefs == 2

DumpSvg == [kind |-> "Svg", size |-> <<One, One>>, view_box |-> <<0, 0, One, One>>]

DumpLinear(k) ==
    [kind |-> "LinearGradient", id |-> <<"d", k>>,
     x1 |-> Zero, y1 |-> Zero, x2 |-> One, y2 |-> Zero,
     base |-> [units |-> "UserSpaceOnUse", transform |-> Identity,
               spread_method |-> "Pad"]]

DumpClip(k) ==
    [kind |-> "ClipPath", id |-> <<"d", k>>, units |-> "UserSpaceOnUse",
     transform |-> Identity]

DumpFill(paint) == Some([paint |-> paint, opacity |-> One, rule |-> "NonZero"])

DumpStroke(paint) ==
    Some([paint |-> paint, opacity |-> One, dashoffset |-> Zero, miterlimit |-> Four,
          width |-> One, linecap |-> "Butt", linejoin |-> "Miter"])

DumpPath(id, fill, stroke) ==
    [kind |-> "Path", id |-> id, transform |-> Identity, d |-> "M 0 0",
     fill |-> fill, stroke |-> stroke]

DumpGroup(id, clip) ==
    [kind |-> "Group", id |-> id, transform |-> Identity, opacity |-> None,
     clip_path |-> clip]

\* the paints of a Document with n definitions entries
DumpPaints(n) == {Color(Red)} \cup { PaintLink(i) : i \in 0..(n - 1) }

\* a definitions entry: a gradient, or a ClipPath with one Path below it
DumpEntries(n) ==
    {[kind |-> "LinearGradient", paint |-> Color(Red)]}
        \cup { [kind |-> "ClipPath", paint |-> p] : p \in DumpPaints(n) }

\* the content: a Path, or a clipped Group with a Path below it
DumpContents(n) ==
    { [kind |-> "Path", paint |-> p, clip |-> 0] : p \in DumpPaints(n) }
        \cup { [kind |-> "Group", paint |-> p, clip |-> i] :
                  p \in DumpPaints(n), i \in 0..(n - 1) }

RECURSIVE append_entries(_, _, _)
append_entries(d, es, k) ==
    IF k > Len(es) THEN d
    ELSE IF es[k].kind = "LinearGradient"
    THEN append_entries(append_node(d, DEFS_DEPTH, DumpLinear(k)), es, k + 1)
    ELSE append_entries(
            append_node(append_node(d, DEFS_DEPTH, DumpClip(k)), DEFS_DEPTH + 1,
                        DumpPath(<<"d", k, 1>>, DumpFill(es[k].paint), None)),
            es, k + 1)

append_content(d, c) ==
    IF c.kind = "Path"
    THEN append_node(d, 1, DumpPath(<<"p">>, DumpFill(c.paint), None))
    ELSE append_node(append_node(d, 1, DumpGroup(<<"g">>, Some(c.clip))), 2,
                     DumpPath(<<"p">>, None, DumpStroke(c.paint)))

\* the contents whose clip_path, if any, is the index of a ClipPath entry
DumpContentsOf(es) ==
    { x \in DumpContents(Len(es)) :
        x.kind = "Group" => es[x.clip + 1].kind = "ClipPath" }

DumpDocsOf(es) ==
    { append_content(append_entries(Document_new(DumpSvg), es, 1), c) :
        c \in DumpContentsOf(es) }

DumpDocs ==
    UNION { DumpDocsOf(es) :
              es \in UNION { [1..n -> DumpEntries(n)] : n \in 1..MaxDefs } }

InitDump ==
    /\ doc \in DumpDocs
    /\ svg_doc = [svg |-> None]
    /\ debug_assertions = FALSE
    /\ pc = "returned"
    /\ stack = <<>>
    /\ result = "Ok"
    /\ round = 0
    /\ doc0 = <<>>
    /\ new_doc = [svg |-> None]
    /\ image = NoImage
    /\ painter = <<>>
    /\ ret = None

SpecDump == InitDump /\ [][ConvDoc]_vars

-----------------------------------------------------------------------------
(* render_qt/image.rs: draw.  Whether qt loads the image and whether it    *)
(* scales it is the backend's answer; p is the list of the draw_image      *)
(* calls the painter has received.                                         *)

\* draw that paints the image it failed to scale
draw_unscaled(img, p, loaded, resized) ==
    IF ~loaded
    THEN [at |-> "load_failed", p |-> p, ret |-> img.rect]
    ELSE [at |-> IF resized THEN "drawn" ELSE "resize_failed",
          p |-> Append(p, [x |-> img.rect.x, y |-> img.rect.y]),
          ret |-> img.rect]

draw(img, p, loaded, resized) ==
    IF ~loaded
    THEN [at |-> "load_failed", p |-> p, ret |-> img.rect]
    ELSE IF ~resized
    THEN [at |-> "resize_failed", p |-> p, ret |-> img.rect]
    ELSE [at |-> "drawn",
          p |-> Append(p, [x |-> img.rect.x, y |-> img.rect.y]),
          ret |-> img.rect]

Coords == {0, 10}
Sides == {0, 30}

Images ==
    { [rect |-> [x |-> x, y |-> y, w |-> w, h |-> h], data |-> data] :
        x \in Coords, y \in Coords, w \in Sides, h \in Sides,
        data \in { [kind |-> "Path", path |-> <<"a.png">>, format |-> ""],
                   [kind |-> "Raw", path |-> <<"bytes">>, format |-> "PNG"],
                   [kind |-> "Raw", path |-> <<"bytes">>, format |-> "JPEG"] } }

InitDraw ==
    /\ image \in Images
    /\ painter = <<>>
    /\ ret = None
    /\ pc = "draw"
    /\ svg_doc = [svg |-> None]
    /\ debug_assertions = FALSE
    /\ stack = <<>>
    /\ doc = <<>>
    /\ result = ""
    /\ round = 0
    /\ doc0 = <<>>
    /\ new_doc = [svg |-> None]

\* one call of draw(image, p)
Draw ==
    /\ pc = "draw"
    /\ \E loaded \in BOOLEAN, resized \in BOOLEAN :
          LET out == draw(image, painter, loaded, resized)
          IN /\ pc' = out.at
             /\ painter' = out.p
             /\ ret' = Some(out.ret)
    /\ UNCHANGED <<svg_doc, debug_assertions, stack, doc, result, round, doc0,
                   new_doc, image>>

SpecDraw == InitDraw /\ [][Draw]_vars

-----------------------------------------------------------------------------
(* Vocabulary of the properties *)

\* the indices of the content tree: everything after the definitions
content(D) == { i \in 3..Len(D) : \E k \in 3..i : D[k].depth = 1 }

ids_of(D, S) == { D[i].n.id : i \in S }

RECURSIVE all_ids(_)
all_ids(node) == {node.id} \cup UNION { all_ids(node.kids[k]) : k \in 1..Len(node.kids) }

\* the ids and kinds of the definitions entries, in order
defs_entries(D) ==
    [k \in 1..Len(defs(D)) |-> <<D[defs(D)[k]].n.kind, D[defs(D)[k]].n.id>>]

\* a clip-path attribute that names no clipPath of the definitions list
broken_clip(node, D) ==
    /\ has(node.attrs, "clip-path")
    /\ ~ /\ node.attrs["clip-path"].kind = "link"
         /\ node.attrs["clip-path"].tag = "clipPath"
         /\ \E k \in 1..Len(defs_entries(D)) :
                defs_entries(D)[k][2] = node.attrs["clip-path"].id

\* the elements the content pass visits below kids: those not referenced, below
\* groups that are not referenced and not dropped
RECURSIVE visited(_, _)
visited(kids, D) ==
    UNION { IF kids[k].ref THEN {}
            ELSE IF kids[k].tag = "g" /\ ~broken_clip(kids[k], D)
                 THEN {kids[k]} \cup visited(kids[k].kids, D)
                 ELSE {kids[k]} : k \in 1..Len(kids) }

\* the ids of the visited groups with a broken clip-path, and of all below them
dropped_ids(kids, D) ==
    UNION { all_ids(e) : e \in { v \in visited(kids, D) :
                                    v.tag = "g" /\ broken_clip(v, D) } }

\* the ids of the visited paths and groups that are to give a node
kept_ids(kids, D) ==
    { e.id : e \in { v \in visited(kids, D) :
                       \/ v.tag = "g" /\ ~broken_clip(v, D)
                       \/ v.tag = "path" /\ has(v.attrs, "d") } }

top(sd) == unwrap(sd.svg).kids

-----------------------------------------------------------------------------
(* C1: broken-clip drop.  No node of the content tree comes from a visited *)
(* 'g' whose clip-path names no clipPath entry of the definitions list, or *)
(* from anything below it; and once convert_doc has returned, every other  *)
(* visited path (with data) and group has its node, so the siblings that   *)
(* follow a dropped group are still converted.                             *)
C1_BrokenClipDrop ==
    pc \in {"nodes", "returned", "panicked"} /\ is_some(svg_doc.svg) /\ doc # <<>> =>
        /\ ids_of(doc, content(doc)) \cap dropped_ids(top(svg_doc), doc) = {}
        /\ pc = "returned" =>
              kept_ids(top(svg_doc), doc) \subseteq ids_of(doc, content(doc))

\* a dropped group with MaxKids children, its clipPath absent from the
\* definitions list, followed by a sibling that was converted
C1_Witness ==
    /\ pc = "returned" /\ result = "Ok" /\ round = 0
    /\ \E k \in 1..Len(top(svg_doc)) :
          /\ top(svg_doc)[k].tag = "g"
          /\ broken_clip(top(svg_doc)[k], doc)
          /\ top(svg_doc)[k].attrs["clip-path"] = ClipAbsent
          /\ Len(top(svg_doc)[k].kids) = MaxKids
          /\ \E j \in (k + 1)..Len(top(svg_doc)) :
                top(svg_doc)[j].id \in ids_of(doc, content(doc))

-----------------------------------------------------------------------------
\* what convert_doc is to return for a tree, were the content pass to finish
expected_result(sd) ==
    IF is_none(sd.svg) THEN "MissingSvgNode"
    ELSE IF ~(has(unwrap(sd.svg).attrs, "width") /\ has(unwrap(sd.svg).attrs, "height"))
    THEN "InvalidSize"
    ELSE IF ~(has(unwrap(sd.svg).attrs, "viewBox")
                /\ Len(unwrap(sd.svg).attrs["viewBox"]) = 4)
    THEN "InvalidViewBox"
    ELSE "Ok"

\* the content pass comes to a 'g' without children
visits_empty_group(sd, D) ==
    \E v \in visited(top(sd), D) : v.tag = "g" /\ v.kids = <<>>

terminated == pc \in {"returned", "panicked"}

-----------------------------------------------------------------------------
(* The round trip: D = doc0, conv_doc(D) = new_doc, and doc resolved from it *)

\* the children of the 'defs' element conv_doc emitted
dumped_defs == unwrap(new_doc.svg).kids[1].kids

\* every definitions entry of D is linked by some attribute of conv_doc(D)
all_linked == \A k \in 1..Len(dumped_defs) : dumped_defs[k].ref

\* a Group of D without children
has_empty_group(D) ==
    \E i \in content(D) : D[i].n.kind = "Group" /\ children(D, i) = {}

resolved_again == round = 1 /\ pc = "returned" /\ result = "Ok"

(* C3 as stated: re-resolving conv_doc(D) gives a definitions list of the   *)
(* same length with the same kinds and ids at the same positions, for      *)
(* every D that convert_doc produced.                                      *)
C3_IndexStability ==
    resolved_again => defs_entries(doc) = defs_entries(doc0)

(* C3, amended: the same, for every D each of whose definitions entries is  *)
(* linked by some element of conv_doc(D); and the re-resolve returns a     *)
(* Document unless the build has debug assertions and D has a Group        *)
(* without children.                                                       *)
C3_IndexStabilityWhenLinked ==
    round = 1 /\ terminated /\ all_linked =>
        /\ defs_entries(doc) = defs_entries(doc0)
        /\ result = "Ok" \/ (debug_assertions /\ has_empty_group(doc0))

\* a round trip of a Document with two linked definitions entries
C3_Witness ==
    resolved_again /\ all_linked /\ Len(defs(doc0)) >= 2

-----------------------------------------------------------------------------
paint_equiv(a, b) == a = b

fill_equiv(f, g) ==
    \/ is_none(f) /\ is_none(g)
    \/ /\ is_some(f) /\ is_some(g)
       /\ paint_equiv(unwrap(f).paint, unwrap(g).paint)
       /\ fuzzy_eq(unwrap(f).opacity, unwrap(g).opacity)
       /\ unwrap(f).rule = unwrap(g).rule

stroke_equiv(f, g) ==
    \/ is_none(f) /\ is_none(g)
    \/ /\ is_some(f) /\ is_some(g)
       /\ paint_equiv(unwrap(f).paint, unwrap(g).paint)
       /\ fuzzy_eq(unwrap(f).opacity, unwrap(g).opacity)
       /\ fuzzy_eq(unwrap(f).dashoffset, unwrap(g).dashoffset)
       /\ fuzzy_eq(unwrap(f).miterlimit, unwrap(g).miterlimit)
       /\ fuzzy_eq(unwrap(f).width, unwrap(g).width)
       /\ unwrap(f).linecap = unwrap(g).linecap
       /\ unwrap(f).linejoin = unwrap(g).linejoin

node_equiv(x, y) ==
    /\ x.depth = y.depth
    /\ x.n.kind = y.n.kind
    /\ x.n.id = y.n.id
    /\ x.n.kind = "Group" => x.n.clip_path = y.n.clip_path
    /\ x.n.kind = "Path" => /\ fill_equiv(x.n.fill, y.n.fill)
                            /\ stroke_equiv(x.n.stroke, y.n.stroke)

\* the content trees of D and E: the same nodes in the same order
same_content(D, E) ==
    LET a == SortedSeq(content(D))
        b == SortedSeq(content(E))
    IN /\ Len(a) = Len(b)
       /\ \A k \in 1..Len(a) : node_equiv(D[a[k]], E[b[k]])

(* C6 as stated: re-resolving conv_doc(D) gives a content tree with the     *)
(* same nodes in the same order: the same kind, id and depth, the same     *)
(* clip_path index on each Group, and fills and strokes equal up to the    *)
(* documented defaults.                                                    *)
C6_ContentRoundTrip ==
    resolved_again => same_content(doc0, doc)

(* C6, amended: the same, for every D each of whose definitions entries is  *)
(* linked by some element of conv_doc(D); and the re-resolve returns a     *)
(* Document unless the build has debug assertions and D has a Group        *)
(* without children.                                                       *)
C6_ContentRoundTripWhenLinked ==
    round = 1 /\ terminated /\ all_linked =>
        /\ result = "Ok" => same_content(doc0, doc)
        /\ result = "Ok" \/ (debug_assertions /\ has_empty_group(doc0))

\* a round trip of a clipped Group with a Path below it whose fill links to a
\* gradient, every entry linked
C6_Witness ==
    /\ resolved_again /\ all_linked
    /\ \E i \in content(doc0) :
          /\ doc0[i].n.kind = "Group" /\ is_some(doc0[i].n.clip_path)
          /\ \E j \in children(doc0, i) :
                /\ doc0[j].n.kind = "Path" /\ is_some(doc0[j].n.fill)
                /\ unwrap(doc0[j].n.fill).paint.kind = "Link"

-----------------------------------------------------------------------------
(* The attributes of the emitted elements *)

\* the documented defaults, by attribute
OmittedNumbers ==
    ("fill-opacity" :> One) @@ ("stroke-opacity" :> One) @@ ("stroke-width" :> One)
        @@ ("stroke-miterlimit" :> Four) @@ ("stroke-dashoffset" :> Zero)
        @@ ("opacity" :> One)
OmittedKeywords ==
    ("stroke-linecap" :> "butt") @@ ("stroke-linejoin" :> "miter")
        @@ ("fill-rule" :> "nonzero") @@ ("clip-rule" :> "nonzero")
Transforms == {"transform", "gradientTransform", "patternTransform"}
GradientNumbers ==
    ("x1" :> Zero) @@ ("y1" :> Zero) @@ ("x2" :> One) @@ ("y2" :> Zero)
        @@ ("cx" :> Half) @@ ("cy" :> Half) @@ ("r" :> Half) @@ ("fx" :> Half)
        @@ ("fy" :> Half) @@ ("offset" :> Zero) @@ ("stop-opacity" :> One)
GradientColors == "stop-color" :> Black
GradientKeywords ==
    ("spreadMethod" :> "pad") @@ ("gradientUnits" :> "userSpaceOnUse")
        @@ ("clipPathUnits" :> "userSpaceOnUse") @@ ("patternUnits" :> "userSpaceOnUse")

\* the attributes of an element that hold their documented default
at_default(attrs, numbers, keywords, colors) ==
    { a \in DOMAIN attrs :
        \/ a \in DOMAIN numbers /\ fuzzy_eq(attrs[a], numbers[a])
        \/ a \in DOMAIN keywords /\ attrs[a] = keywords[a]
        \/ a \in Transforms /\ is_default(attrs[a])
        \/ a \in DOMAIN colors /\ attrs[a] = colors[a] }

\* the attributes written at their default anywhere in the tree below node
RECURSIVE defaults_written(_, _, _, _)
defaults_written(node, numbers, keywords, colors) ==
    at_default(node.attrs, numbers, keywords, colors)
        \cup UNION { defaults_written(node.kids[k], numbers, keywords, colors) :
                       k \in 1..Len(node.kids) }

\* the attributes conv_defs and conv_base_grad set on every entry and stop
always_written(tag) ==
    CASE tag = "linearGradient" -> {"x1", "y1", "x2", "y2", "gradientUnits", "spreadMethod"}
      [] tag = "radialGradient" ->
            {"cx", "cy", "r", "fx", "fy", "gradientUnits", "spreadMethod"}
      [] tag = "clipPath" -> {"clipPathUnits"}
      [] tag = "pattern" -> {"patternUnits", "patternContentUnits"}
      [] tag = "stop" -> {"offset", "stop-color", "stop-opacity"}
      [] OTHER -> {}

RECURSIVE writes_all(_)
writes_all(node) ==
    /\ always_written(node.tag) \subseteq DOMAIN node.attrs
    /\ \A k \in 1..Len(node.kids) : writes_all(node.kids[k])

(* C4 as stated: conv_doc(D) writes no attribute at its documented default  *)
(* on any element: the paint, stroke, group and transform attributes, and  *)
(* also the gradient coordinates, the spread method, the units and the     *)
(* stop attributes.                                                        *)
C4_DefaultOmission ==
    pc = "dumped" =>
        defaults_written(unwrap(new_doc.svg), OmittedNumbers @@ GradientNumbers,
                         OmittedKeywords @@ GradientKeywords, GradientColors) = {}

(* C4, amended: conv_doc(D) writes no fill/stroke opacity, stroke width,    *)
(* miter limit, dash offset, line cap, line join, fill rule, group opacity *)
(* or transform at its documented default; the gradient coordinates, the   *)
(* spread method, the units and the stop attributes are written on every   *)
(* element that has them, whatever their value.                            *)
C4_DefaultOmissionOfPaint ==
    pc = "dumped" =>
        /\ defaults_written(unwrap(new_doc.svg), OmittedNumbers, OmittedKeywords,
                            NoAttrs) = {}
        /\ writes_all(unwrap(new_doc.svg))

\* a dump of a Document with a stroke width within epsilon of 1.0, a Group of
\* opacity 1.0 and a gradient whose x1 is 0.0
C4_Witness ==
    /\ pc = "dumped"
    /\ \E i \in content(doc) :
          /\ doc[i].n.kind = "Path" /\ is_some(doc[i].n.stroke)
          /\ unwrap(doc[i].n.stroke).width = One - Eps
    /\ \E i \in content(doc) : doc[i].n.kind = "Group" /\ doc[i].n.opacity = Some(One)
    /\ \E k \in 1..Len(defs(doc)) :
          /\ doc[defs(doc)[k]].n.kind = "LinearGradient"
          /\ doc[defs(doc)[k]].n.x1 = Zero

-----------------------------------------------------------------------------
(* The links of a Document and of its dump *)

\* the links of D: the node, the attribute that carries it, and the index
links_of(D) ==
    { <<j, "fill", unwrap(D[j].n.fill).paint.idx>> :
        j \in { i \in 3..Len(D) : /\ D[i].n.kind = "Path" /\ is_some(D[i].n.fill)
                                  /\ unwrap(D[i].n.fill).paint.kind = "Link" } }
    \cup
    { <<j, "stroke", unwrap(D[j].n.stroke).paint.idx>> :
        j \in { i \in 3..Len(D) : /\ D[i].n.kind = "Path" /\ is_some(D[i].n.stroke)
                                  /\ unwrap(D[i].n.stroke).paint.kind = "Link" } }
    \cup
    { <<j, "clip-path", unwrap(D[j].n.clip_path)>> :
        j \in { i \in 3..Len(D) : D[i].n.kind = "Group" /\ is_some(D[i].n.clip_path) } }

RECURSIVE elements(_)
elements(node) == {node} \cup UNION { elements(node.kids[k]) : k \in 1..Len(node.kids) }

\* the emitted element called id
element(id) == CHOOSE e \in elements(unwrap(new_doc.svg)) : e.id = id

-----------------------------------------------------------------------------
(* The definitions pass: what each referenced gradient of 'defs' is to give *)

defs_pass_done ==
    pc \in {"nodes", "returned"} /\ is_some(svg_doc.svg) /\ doc # <<>>

\* the children of the 'defs' element
defs_kids == IF is_some(defs_element(svg_doc))
             THEN unwrap(defs_element(svg_doc)).kids ELSE <<>>

is_gradient(el) == el.tag \in {"linearGradient", "radialGradient"}

gradients == { defs_kids[k] : k \in { j \in 1..Len(defs_kids) :
                                        defs_kids[j].ref /\ is_gradient(defs_kids[j]) } }

own(attrs, aid, default) == IF aid \in DOMAIN attrs THEN attrs[aid] ELSE default

is_stop(s) == s.tag = "stop"

\* the Stop nodes of a gradient element, from its own children
own_stops(el) ==
    [k \in 1..Len(SelectSeq(el.kids, is_stop)) |->
        [depth |-> DEFS_DEPTH + 1,
         n |-> [kind |-> "Stop",
                offset |-> own(SelectSeq(el.kids, is_stop)[k].attrs, "offset", Zero),
                color |-> own(SelectSeq(el.kids, is_stop)[k].attrs, "stop-color", Black),
                opacity |-> own(SelectSeq(el.kids, is_stop)[k].attrs, "stop-opacity", One)]]]

\* the nodes below the entry of D called id
below(D, id) ==
    [k \in 1..Len(node_children(D, defs_at(D, unwrap(defs_index(D, id))))) |->
        D[node_children(D, defs_at(D, unwrap(defs_index(D, id))))[k]]]

stops_match(el) ==
    /\ is_some(defs_index(doc, el.id))
    /\ below(doc, el.id) = own_stops(el)

own_units(attrs) ==
    IF own(attrs, "gradientUnits", "") = "objectBoundingBox"
    THEN "ObjectBoundingBox" ELSE "UserSpaceOnUse"

own_spread(attrs) ==
    IF own(attrs, "spreadMethod", "") = "reflect" THEN "Reflect"
    ELSE IF own(attrs, "spreadMethod", "") = "repeat" THEN "Repeat"
    ELSE "Pad"

attrs_match(el) ==
    /\ is_some(defs_index(doc, el.id))
    /\ LET n == doc[defs_at(doc, unwrap(defs_index(doc, el.id)))].n
       IN /\ n.base = [units |-> own_units(el.attrs),
                       transform |-> own(el.attrs, "gradientTransform", Identity),
                       spread_method |-> own_spread(el.attrs)]
          /\ IF el.tag = "linearGradient"
             THEN /\ n.kind = "LinearGradient"
                  /\ n.x1 = own(el.attrs, "x1", Zero) /\ n.y1 = own(el.attrs, "y1", Zero)
                  /\ n.x2 = own(el.attrs, "x2", One) /\ n.y2 = own(el.attrs, "y2", Zero)
             ELSE /\ n.kind = "RadialGradient"
                  /\ n.cx = own(el.attrs, "cx", Half) /\ n.cy = own(el.attrs, "cy", Half)
                  /\ n.r = own(el.attrs, "r", Half)
                  /\ n.fx = own(el.attrs, "fx", Half) /\ n.fy = own(el.attrs, "fy", Half)

C8_GradientFallbacks ==
    defs_pass_done => \A el \in gradients : attrs_match(el)

\* a linear gradient with x1 and y2 only and two unrecognized keywords
C8_Witness ==
    /\ pc = "returned" /\ result = "Ok" /\ round = 0
    /\ \E el \in gradients :
          /\ el.tag = "linearGradient"
          /\ DOMAIN el.attrs \cap DOMAIN LinearAttrs = {"x1", "y2"}
          /\ own(el.attrs, "gradientUnits", "") = "inherit"
          /\ own(el.attrs, "spreadMethod", "") = "inherit"
          /\ doc[defs_at(doc, unwrap(defs_index(doc, el.id)))].n.x2 = One
          /\ doc[defs_at(doc, unwrap(defs_index(doc, el.id)))].n.base.units
                = "UserSpaceOnUse"

\* the kind of the entry an element of 'defs' gives
kind_of(tag) ==
    CASE tag = "linearGradient" -> "LinearGradient"
      [] tag = "radialGradient" -> "RadialGradient"
      [] tag = "clipPath" -> "ClipPath"
      [] tag = "pattern" -> "Pattern"

is_entry(el) ==
    el.ref /\ el.tag \in {"linearGradient", "radialGradient", "clipPath", "pattern"}

\* a gradient that links to another element, or has a child that is no stop
links_or_holds_others(el) ==
    \/ has(el.attrs, "xlink:href")
    \/ \E k \in 1..Len(el.kids) : ~is_stop(el.kids[k])

(* C9: non-recursive definitions.  Once the definitions pass is over, the  *)
(* definitions list has one entry per referenced gradient, clipPath and    *)
(* pattern of 'defs', in order, and no other; and the entry of a gradient  *)
(* that links to another entry, or has children that are no stops, holds   *)
(* the gradient's own attributes and stops only.                           *)
C9_NonRecursiveDefs ==
    defs_pass_done =>
        /\ defs_entries(doc) =
              [k \in 1..Len(SelectSeq(defs_kids, is_entry)) |->
                  <<kind_of(SelectSeq(defs_kids, is_entry)[k].tag),
                    SelectSeq(defs_kids, is_entry)[k].id>>]
        /\ \A el \in { g \in gradients : links_or_holds_others(g) } :
              stops_match(el) /\ attrs_match(el)

\* a linear gradient without attributes that links to lg2, which follows it
\* and has coordinates and two stops of its own
C9_Witness ==
    /\ pc = "returned" /\ result = "Ok" /\ round = 0
    /\ \E el \in gradients :
          /\ el.tag = "linearGradient"
          /\ has(el.attrs, "xlink:href") /\ el.attrs["xlink:href"].id = <<"lg2">>
          /\ \E k \in 1..Len(el.kids) : ~is_stop(el.kids[k])
          /\ defs_index(doc, el.id) = Some(0)
          /\ defs_index(doc, <<"lg2">>) = Some(1)
          /\ Len(below(doc, <<"lg2">>)) = 2

-----------------------------------------------------------------------------
(* C10: image failure degrades.  draw returns the declared rectangle of    *)
(* the image on every path and raises no error; when the load, the decode  *)
(* or the scaling fails the painter receives no draw_image; when all       *)
(* succeed it receives exactly one, at the x, y of the rectangle.          *)
C10_ImageFailureDegrades ==
    pc \in {"drawn", "load_failed", "resize_failed"} =>
        /\ ret = Some(image.rect)
        /\ result = ""
        /\ pc # "drawn" => painter = <<>>
        /\ pc = "drawn" => painter = <<[x |-> image.rect.x, y |-> image.rect.y]>>

\* an embedded image that loaded and could not be scaled
C10_Witness ==
    /\ pc = "resize_failed"
    /\ image.data.kind = "Raw"
    /\ image.rect.x # image.rect.w
    /\ painter = <<>>
    /\ ret = Some(image.rect)

-----------------------------------------------------------------------------
\* the entries the first n children of 'defs' are to give
entries_of_first(n) ==
    [k \in 1..Len(SelectSeq(SubSeq(defs_kids, 1, n), is_entry)) |->
        <<kind_of(SelectSeq(SubSeq(defs_kids, 1, n), is_entry)[k].tag),
          SelectSeq(SubSeq(defs_kids, 1, n), is_entry)[k].id>>]

(* C11: definitions pass selection and order.  While convert_ref_nodes     *)
(* runs, the definitions list holds one entry for each child of 'defs'     *)
(* visited so far that is referenced and a linearGradient, radialGradient, *)
(* clipPath or pattern, in the order of the children; after it, one for    *)
(* each such child.  Children that are not referenced, children of another *)
(* tag and elements deeper in 'defs' give no entry, and a child of another *)
(* tag does not end the pass.                                              *)
C11_DefsSelectionAndOrder ==
    /\ pc = "ref_nodes" =>
          defs_entries(doc) = entries_of_first(Len(defs_kids) - Len(stack))
    /\ defs_pass_done => defs_entries(doc) = entries_of_first(Len(defs_kids))

\* a referenced element that is no definition, then a referenced clipPath
\* holding a referenced gradient: the one entry is the clipPath
C11_Witness ==
    /\ pc = "returned" /\ result = "Ok" /\ round = 0
    /\ Len(defs_kids) = 2
    /\ defs_kids[1].tag = "filter" /\ defs_kids[1].ref
    /\ defs_kids[2].tag = "clipPath" /\ defs_kids[2].ref
    /\ \E k \in 1..Len(defs_kids[2].kids) :
          defs_kids[2].kids[k].tag = "linearGradient" /\ defs_kids[2].kids[k].ref
    /\ defs_entries(doc) = << <<"ClipPath", <<"cn">> >> >>

-----------------------------------------------------------------------------
\* the ids of the referenced elements below kids, and of all inside them
RECURSIVE referenced_ids(_)
referenced_ids(kids) ==
    UNION { IF kids[k].ref THEN all_ids(kids[k]) ELSE referenced_ids(kids[k].kids) :
              k \in 1..Len(kids) }

\* the ids of the elements inside the 'defs' containers among kids
defs_ids(kids) ==
    UNION { all_ids(kids[k]) : k \in { j \in 1..Len(kids) : kids[j].tag = "defs" } }

\* the nodes of D that have an id: the entries, their children and the content
named(D) == { i \in 3..Len(D) : D[i].n.kind # "Stop" }

(* C12: no duplication of referenced nodes.  No node of the content tree   *)
(* comes from a referenced element or from an element inside one, whatever *)
(* its tag and depth, nor from an element inside the 'defs' container; no  *)
(* element gives both a definitions entry and a content node; and no       *)
(* element gives two nodes of the Document.                                *)
C12_NoDuplication ==
    pc \in {"nodes", "returned", "panicked"} /\ is_some(svg_doc.svg) /\ doc # <<>> =>
        /\ ids_of(doc, content(doc)) \cap referenced_ids(top(svg_doc)) = {}
        /\ ids_of(doc, content(doc)) \cap defs_ids(top(svg_doc)) = {}
        /\ ids_of(doc, content(doc)) \cap ids_of(doc, named(doc) \ content(doc)) = {}
        /\ \A i, j \in named(doc) : doc[i].n.id = doc[j].n.id => i = j

\* a referenced group with a path below it among the content, and a referenced
\* gradient in 'defs' that gave an entry: neither is in the content tree
C12_Witness ==
    /\ pc = "returned" /\ result = "Ok" /\ round = 0
    /\ \E k \in 1..Len(top(svg_doc)) :
          /\ top(svg_doc)[k].tag = "g" /\ top(svg_doc)[k].ref
          /\ top(svg_doc)[k].kids # <<>>
          /\ top(svg_doc)[k].kids[1].tag = "path"
    /\ is_some(defs_index(doc, <<"lg1">>))
    /\ content(doc) # {}

-----------------------------------------------------------------------------
\* every element below kids with the number of its ancestors up to the svg
\* element, the tag and the id of its parent
RECURSIVE places(_, _, _)
places(kids, depth, parent) ==
    UNION { {[id |-> kids[k].id, depth |-> depth, up |-> parent.id, tag |-> parent.tag]}
                \cup places(kids[k].kids, depth + 1, kids[k]) : k \in 1..Len(kids) }

place(sd, id) == CHOOSE e \in places(top(sd), 1, unwrap(sd.svg)) : e.id = id

\* the node the node at i hangs under: the last one before it of a smaller depth
parent_of(D, i) ==
    CHOOSE j \in 1..(i - 1) :
        /\ D[j].depth < D[i].depth
        /\ \A k \in (j + 1)..(i - 1) : D[k].depth >= D[i].depth

(* C13: depth discipline of insertion.  The first node the content pass    *)
(* appends is at depth 1; a node at depth d > 1 hangs under a Group at     *)
(* depth d - 1, the one converted from the parent 'g' of its element; so   *)
(* the depth of every content node is 1 plus the number of its 'g'         *)
(* ancestors, all of them retained, and no node hangs under a Path, a Text *)
(* or an Image.                                                            *)
C13_DepthDiscipline ==
    pc \in {"nodes", "returned", "panicked"} /\ is_some(svg_doc.svg) /\ doc # <<>> =>
        \A i \in content(doc) :
            /\ doc[i].depth = place(svg_doc, doc[i].n.id).depth
            /\ i - 1 \notin content(doc) => doc[i].depth = 1
            /\ doc[i].depth > 1 =>
                  /\ parent_of(doc, i) \in content(doc)
                  /\ doc[parent_of(doc, i)].n.kind = "Group"
                  /\ doc[parent_of(doc, i)].depth = doc[i].depth - 1
                  /\ doc[parent_of(doc, i)].n.id = place(svg_doc, doc[i].n.id).up
                  /\ place(svg_doc, doc[i].n.id).tag = "g"

\* a Path at depth 3 under a Group under a Group, then a node back at depth 1
C13_Witness ==
    /\ pc = "returned" /\ result = "Ok" /\ round = 0
    /\ \E i \in content(doc) :
          /\ doc[i].depth = 3 /\ doc[i].n.kind = "Path"
          /\ doc[parent_of(doc, i)].depth = 2
          /\ \E j \in content(doc) : j > i /\ doc[j].depth = 1

-----------------------------------------------------------------------------
\* the element of the tree called id
element_in(sd, id) == CHOOSE e \in elements(unwrap(sd.svg)) : e.id = id

\* the clip_path of every Group of the content tree of D is the index of the
\* ClipPath entry that the clip-path attribute of its element names
clips_resolved(sd, D) ==
    \A i \in { j \in content(D) : D[j].n.kind = "Group" /\ is_some(D[j].n.clip_path) } :
        /\ unwrap(D[i].n.clip_path) < Len(defs(D))
        /\ D[defs_at(D, unwrap(D[i].n.clip_path))].n.kind = "ClipPath"
        /\ D[defs_at(D, unwrap(D[i].n.clip_path))].n.id
              = element_in(sd, D[i].n.id).attrs["clip-path"].id

(* C14: pass ordering and append-only construction.  Every step of the     *)
(* definitions pass and of the content pass only appends to the Document;  *)
(* the definitions pass leaves the content tree empty; a step of the       *)
(* content pass leaves the definitions list as it is; and the clip_path    *)
(* recorded on a Group is, then and in the returned Document, the index of *)
(* the ClipPath entry its clip-path attribute names.                       *)
C14_PassOrdering ==
    [][ /\ pc \in {"ref_nodes", "nodes"} =>
              /\ Len(doc') >= Len(doc)
              /\ SubSeq(doc', 1, Len(doc)) = doc
        /\ pc = "ref_nodes" /\ pc' = "ref_nodes" => content(doc') = {}
        /\ pc = "nodes" =>
              /\ defs(doc') = defs(doc)
              /\ defs_entries(doc') = defs_entries(doc)
              /\ clips_resolved(svg_doc, doc')
      ]_vars

\* a returned Document whose second definitions entry is the ClipPath of a
\* Group of the content tree
C14_Witness ==
    /\ pc = "returned" /\ result = "Ok" /\ round = 0
    /\ Len(defs(doc)) = 2
    /\ \E i \in content(doc) :
          /\ doc[i].n.kind = "Group" /\ doc[i].n.clip_path = Some(1)
          /\ doc[defs_at(doc, 1)].n.kind = "ClipPath"

-----------------------------------------------------------------------------
\* the tree t has 'defs' first and only there, with one child for each entry
\* of D, of its tag and id, the nodes below the entry nested under that child
layout(D, t) ==
    /\ is_some(t.svg)
    /\ unwrap(t.svg).tag = "svg"
    /\ unwrap(t.svg).kids # <<>>
    /\ unwrap(t.svg).kids[1].tag = "defs"
    /\ \A k \in 2..Len(unwrap(t.svg).kids) : unwrap(t.svg).kids[k].tag # "defs"
    /\ Len(unwrap(t.svg).kids) - 1 = Cardinality(children(D, 1) \ {2})
    /\ Len(unwrap(t.svg).kids[1].kids) = Len(defs(D))
    /\ \A k \in 1..Len(defs(D)) :
          /\ unwrap(t.svg).kids[1].kids[k].tag
                \in {"linearGradient", "radialGradient", "clipPath", "pattern"}
          /\ kind_of(unwrap(t.svg).kids[1].kids[k].tag) = D[defs(D)[k]].n.kind
          /\ unwrap(t.svg).kids[1].kids[k].id = D[defs(D)[k]].n.id
          /\ Len(unwrap(t.svg).kids[1].kids[k].kids)
                = Cardinality(children(D, defs(D)[k]))

(* C15: serializer layout.  A call of conv_doc on a Document that          *)
(* convert_doc returned leaves the Document as it is and gives a tree      *)
(* whose root has the 'defs' container as its first child, before every    *)
(* content element; the container has one child for each definitions      *)
(* entry, the k-th with the tag and the id of the k-th entry, and the      *)
(* stops and the content of an entry are under the child of that entry.    *)
C15_SerializerLayout ==
    [][ pc = "returned" /\ pc' # "returned" =>
            /\ doc' = doc
            /\ pc' = "dumped"
            /\ layout(doc, new_doc')
      ]_vars

\* the dump of a Document with a gradient of two stops, a second entry and
\* content
C15_Witness ==
    /\ pc = "dumped"
    /\ Len(defs(doc)) = 2
    /\ \E k \in 1..2 : Cardinality(children(doc, defs(doc)[k])) = 2
    /\ content(doc) # {}
    /\ Len(dumped_defs) = 2

-----------------------------------------------------------------------------
\* every 'g' of the tree has a child: what the assertion of line 131 asks
groups_have_children(sd) ==
    \A e \in elements(unwrap(sd.svg)) : e.tag = "g" => e.kids # <<>>

\* the child e of a visited element is one the content pass appends a node for
gives_node(e, D) ==
    /\ ~e.ref
    /\ \/ e.tag = "g" /\ ~broken_clip(e, D)
       \/ e.tag = "path" /\ has(e.attrs, "d")
       \/ e.tag \in {"text", "image"}
       \/ /\ e.tag \in {"line", "rect", "polyline", "polygon", "circle", "ellipse"}
          /\ is_some(shapes_convert(e))

\* the Groups of the content tree of D
groups(D) == { i \in content(D) : D[i].n.kind = "Group" }

\* the 'g' elements conv_doc emitted outside 'defs'
emitted_groups ==
    { e \in UNION { elements(unwrap(new_doc.svg).kids[k]) :
                      k \in 2..Len(unwrap(new_doc.svg).kids) } : e.tag = "g" }

=============================================================================
